---- MODULE Spec2Model ----
(***************************************************************************)
(* Model of the ClickHouse outlet worker of akvorado (dual-write fork):   *)
(* outlet/clickhouse/worker.go and outlet/clickhouse/root.go.             *)
(*                                                                         *)
(* A worker (realWorker) owns a batch buffer (bf), a last-flush timestamp  *)
(* (last) and one destinationWriter per configured destination.           *)
(* FinalizeAndSend and Flush are the two entry points; Flush spawns one    *)
(* goroutine per destination (errgroup), each running                      *)
(* flushSingleDestination, and waits for all of them before clearing bf.   *)
(***************************************************************************)
EXTENDS Integers, Sequences, FiniteSets, TLC

(***************************************************************************)
(* Bounds of the model.                                                    *)
(***************************************************************************)
\* time.Now() returns a value in 1..MaxTime
MaxTime == 3
\* number of FinalizeAndSend / Flush calls in one behaviour
MaxCalls == 2
\* attempts after which the backoff timer of a destination is no longer
\* observed to fire (an unbounded destination would retry for ever)
MaxAttempts == 3

(***************************************************************************)
(* Program constants.                                                      *)
(***************************************************************************)
\* minimumBatchSizeDivider (outlet/clickhouse/config.go): K of the spec
minimumBatchSizeDivider == 10

\* WorkerStatus (worker.go, lines 31-38)
WorkerStatusOK == "OK"
WorkerStatusOverloaded == "Overloaded"
WorkerStatusUnderloaded == "Underloaded"

\* the zero time.Time of a fresh worker (w.last is not set by NewWorker)
ZeroTime == 0
\* time.Time.Sub saturates at the largest Duration: now.Sub(time.Time{})
MaxDuration == 2^30

\* Configuration{} : what primaryConfig returns without destinations
ZeroConfiguration == [MaximumBatchSize |-> 0, MaximumWaitTime |-> 0]

(***************************************************************************)
(* Destinations and their environment.                                     *)
(*   destinations[i] : name, maxRetries (db.MaxRetries()), config          *)
(*                     (MaximumBatchSize, MaximumWaitTime), servers        *)
(*   env[i]          : how the servers of destination i behave:            *)
(*                     dial[s], ping, send in {"ok", "fail", "any"}        *)
(***************************************************************************)
Dest(n, r, b, w, nsrv) ==
    [name |-> n, maxRetries |-> r,
     config |-> [MaximumBatchSize |-> b, MaximumWaitTime |-> w],
     servers |-> nsrv]

Env(dial, ping, send) == [dial |-> dial, ping |-> ping, send |-> send]

Primary(r) == Dest("primary", r, 10, 2, 1)
Azure(r) == Dest("azure", r, 30, 1, 2)
\* a primary with three candidate servers
Replicated(r) == Dest("primary", r, 10, 2, 3)

AllOk(n) == Env([s \in 1..n |-> "ok"], "ok", "ok")
Flaky(n) == Env([s \in 1..n |-> "any"], "any", "any")
SendFails(n) == Env([s \in 1..n |-> "ok"], "ok", "fail")
Down(n) == Env([s \in 1..n |-> "fail"], "ok", "ok")
\* only the last server accepts connections; a send may fail
OneHealthy(n) ==
    Env([s \in 1..n |-> IF s = n THEN "ok" ELSE "fail"], "ok", "any")

\* DefaultConfiguration().MaxRetries (common/clickhousedb/config.go)
DefaultMaxRetries == 0
\* MaxRetries int `validate:"min=0"`
ValidMaxRetries(r) == r >= 0
\* the candidate server list of a destination is not empty
ValidServers(n) == n >= 1

\* the configurations considered: destination list and environment; the
\* last two do not pass the validation of the configuration
Configurations ==
    { [dests |-> <<>>, env |-> <<>>],
      [dests |-> <<Primary(DefaultMaxRetries)>>, env |-> <<Flaky(1)>>],
      [dests |-> <<Primary(0), Azure(1)>>, env |-> <<AllOk(1), Down(2)>>],
      [dests |-> <<Primary(0), Azure(2)>>, env |-> <<Down(1), Flaky(2)>>],
      [dests |-> <<Primary(1), Azure(0)>>, env |-> <<SendFails(1), AllOk(2)>>],
      [dests |-> <<Replicated(0)>>, env |-> <<OneHealthy(3)>>],
      [dests |-> <<Primary(1), Azure(2)>>, env |-> <<SendFails(1), Down(2)>>],
      [dests |-> <<Primary(-1)>>, env |-> <<SendFails(1)>>],
      [dests |-> <<Dest("primary", 0, 10, 2, 0)>>,
       env |-> <<Env(<<>>, "ok", "ok")>>] }

\* helpers.Validate.Struct on the configuration of every destination
Valid(sc) ==
    \A i \in DOMAIN sc.dests :
        /\ ValidMaxRetries(sc.dests[i].maxRetries)
        /\ ValidServers(sc.dests[i].servers)

\* the deployments explored: the configurations that pass the validation
Scenarios == { sc \in Configurations : Valid(sc) }

\* record counts the upstream pipeline leaves in the buffer between calls
BatchCounts == {1, 2, 10}

VARIABLES
    destinations,   \* c.destinations (root.go), fixed at construction
    env,            \* behaviour of the servers of each destination
    bf,             \* w.bf.FlowCount(): records in the batch buffer
    last,           \* w.last
    clock,          \* latest value returned by time.Now()
    pc,             \* "idle", or the call blocked in g.Wait():
                    \*   "FinalizeAndSend" or "Flush"
    batchSize,      \* local batchSize of FinalizeAndSend
    status,         \* WorkerStatus returned by the last FinalizeAndSend
    conn,           \* dw.conn per destination: 0 (nil) or the server
    tpc,            \* per destination goroutine: "none", "op", "send",
                    \*   "backoff", "done"
    attempts,       \* local attempts of flushSingleDestination
    result,         \* error returned by flushSingleDestination
    ctxDone,        \* ctx.Done() is closed
    metrics,        \* c.metrics
    settings,       \* local settings of flushSingleDestination: "none",
                    \*   "async" (dw.asyncSettings) or "default" (nil)
    handed,         \* the inputs handed to dw.conn.Do during this flush
    bfOps,          \* calls on w.bf made by the goroutines of this flush
    retErr,         \* the error value returned by flushSingleDestination
    io,             \* dials, pings, sends and closes of the last step
    act,            \* the step executed last: see Step
    calls           \* number of FinalizeAndSend / Flush calls so far

vars == <<destinations, env, bf, last, clock, pc, batchSize, status, conn,
          tpc, attempts, result, ctxDone, metrics, settings, handed, bfOps,
          retErr, io, act, calls>>

DestIds == {1, 2}

\* the description of a step kept in act: its name, the call of the Worker
\* interface it belongs to, the destination whose goroutine took it, and the
\* batch size and wait time it saw
Step(op, call, d, s, w) ==
    [op |-> op, call |-> call, dest |-> d, batchSize |-> s, waitTime |-> w]
Ds == 1..Len(destinations)

(***************************************************************************)
(* root.go                                                                 *)
(***************************************************************************)
lastConfig ==
    IF Len(destinations) = 0 THEN ZeroConfiguration
    ELSE destinations[Len(destinations)].config
primaryConfig ==
    IF Len(destinations) = 0 THEN ZeroConfiguration
    ELSE destinations[1].config

(***************************************************************************)
(* FinalizeAndSend: the threshold test and the returned status             *)
(***************************************************************************)
\* waitTime := now.Sub(w.last)
WaitTimeNoSaturation(now, lst) == now - lst
WaitTime(now, lst) == IF lst = ZeroTime THEN MaxDuration ELSE now - lst

\* batchSize >= int(MaximumBatchSize) || waitTime >= MaximumWaitTime
TriggeredStrictWait(s, w, cfg) ==
    s >= cfg.MaximumBatchSize \/ w > cfg.MaximumWaitTime
TriggeredNonEmpty(s, w, cfg) ==
    s > 0 \/ w >= cfg.MaximumWaitTime
Triggered(s, w, cfg) ==
    s >= cfg.MaximumBatchSize \/ w >= cfg.MaximumWaitTime

\* the status computed after w.Flush(ctx) inside the if
LoadStatusStrict(s, cfg) ==
    IF s >= cfg.MaximumBatchSize THEN WorkerStatusOverloaded
    ELSE IF s < cfg.MaximumBatchSize \div minimumBatchSizeDivider
         THEN WorkerStatusUnderloaded
         ELSE WorkerStatusOK
LoadStatus(s, cfg) ==
    IF s >= cfg.MaximumBatchSize THEN WorkerStatusOverloaded
    ELSE IF s <= cfg.MaximumBatchSize \div minimumBatchSizeDivider
         THEN WorkerStatusUnderloaded
         ELSE WorkerStatusOK

\* if !w.last.IsZero() { waitTime.Observe(...) }
ObserveWaitAlways(m, lst) == [m EXCEPT !.waitTime = @ + 1]
ObserveWait(m, lst) ==
    IF lst # ZeroTime THEN [m EXCEPT !.waitTime = @ + 1] ELSE m

\* overloaded.Inc() / underloaded.Inc()
CountStatusNever(m, st) == m
CountStatus(m, st) ==
    IF st = WorkerStatusOverloaded THEN [m EXCEPT !.overloaded = @ + 1]
    ELSE IF st = WorkerStatusUnderloaded THEN [m EXCEPT !.underloaded = @ + 1]
    ELSE m

(***************************************************************************)
(* Flush: the early return, the join and the clear                         *)
(***************************************************************************)
\* if w.bf.FlowCount() == 0 { return }
NothingToFlushOffByOne(n) == n <= 1
NothingToFlush(n) == n = 0

\* g.Wait() returns when every goroutine started by g.Go has returned
AllReturnedAny(t) == \E d \in DOMAIN t : t[d] = "done"
AllReturned(t) == \A d \in DOMAIN t : t[d] = "done"

\* g := new(errgroup.Group): a plain group, not errgroup.WithContext, so an
\* error returned by one goroutine does not cancel the ctx of the others
GroupCancelsOnError(err) == err # "nil"
GroupCancels(err) == FALSE

\* w.bf.Clear() after g.Wait(), whatever flushSingleDestination returned
ClearOnlyOnSuccess(n, res) ==
    IF \E d \in DOMAIN res : res[d] # "nil" THEN n ELSE 0
FlowCountAfterFlush(n, res) == 0

(***************************************************************************)
(* flushSingleDestination: the retry budget                                *)
(***************************************************************************)
\* maxAttempts := dw.maxRetries; if maxAttempts == 0 { maxAttempts = -1 }
MaxAttemptsAtLeastOne(maxRetries) == IF maxRetries = 0 THEN 1 ELSE maxRetries
MaxAttemptsOf(maxRetries) == IF maxRetries = 0 THEN -1 ELSE maxRetries

\* if maxAttempts > 0 && attempts > maxAttempts
ExhaustedOffByOne(n, maxAttempts) == maxAttempts > 0 /\ n >= maxAttempts
ExhaustedNoGuard(n, maxAttempts) == n > maxAttempts
ExhaustedLate(n, maxAttempts) == maxAttempts > 0 /\ n > maxAttempts + 1
Exhausted(n, maxAttempts) == maxAttempts > 0 /\ n > maxAttempts

\* the outcomes of one dial, ping or send on a server behaving as `mode`;
\* every such call is bound to ctx and fails once ctx is done
Outcomes(mode) ==
    IF ctxDone THEN {FALSE}
    ELSE IF mode = "ok" THEN {TRUE}
    ELSE IF mode = "fail" THEN {FALSE}
    ELSE {TRUE, FALSE}

\* uint(w.bf.FlowCount()) <= dw.config.MaximumBatchSize/minimumBatchSizeDivider:
\* the settings of the query, dw.asyncSettings or none
SettingsOfPrimary(n, cfg) ==
    IF n <= primaryConfig.MaximumBatchSize \div minimumBatchSizeDivider
    THEN "async" ELSE "default"
SettingsOf(n, cfg) ==
    IF n <= cfg.MaximumBatchSize \div minimumBatchSizeDivider
    THEN "async" ELSE "default"

\* w.bf.ClickHouseProtoInput(): the input of the buffer, n records
ClickHouseProtoInput(n) == [rows |-> n]

\* ch.Query{Body: ..., Input: w.bf.ClickHouseProtoInput(), Settings: settings}
QueryInputBySettings(n, st) ==
    [Input |-> IF st = "async" THEN ClickHouseProtoInput(n)
               ELSE ClickHouseProtoInput(n - 1),
     Settings |-> st]
Query(n, st) == [Input |-> ClickHouseProtoInput(n), Settings |-> st]

\* the calls on w.bf counted in bfOps
NoBfOps == [FlowCount |-> 0, ClickHouseProtoInput |-> 0, Clear |-> 0]

\* the two evaluations of w.bf.ClickHouseProtoInput() in one ch.Query and
\* the w.bf.FlowCount() of the log or of the flows metric that follows
BfOpsOnePerSend(o) ==
    [o EXCEPT !.ClickHouseProtoInput = IF @ = 0 THEN 1 ELSE @,
              !.FlowCount = @ + 1]
BfOpsAfterSend(o) ==
    [o EXCEPT !.ClickHouseProtoInput = @ + 2, !.FlowCount = @ + 1]

\* the w.bf.FlowCount() that selects the settings when the goroutine starts
BfOpsNoSettingsRead(o) == o
BfOpsAfterSettings(o) == [o EXCEPT !.FlowCount = @ + 1]

\* the error values flushSingleDestination returns: what they tell of the
\* destination and of the phase that failed
NilError == [kind |-> "nil", destination |-> "none", phase |-> "none"]
NoError == [kind |-> "none", destination |-> "none", phase |-> "none"]
\* fmt.Errorf("max retries (%d) exceeded for destination %q", ...)
MaxRetriesExceededUnnamed(d) ==
    [kind |-> "RetryExhausted", destination |-> "none", phase |-> "none"]
MaxRetriesExceeded(d) ==
    [kind |-> "RetryExhausted", destination |-> destinations[d].name,
     phase |-> "none"]
\* ctx.Err(), returned by backoff.Retry once ctx is done
CtxErr == [kind |-> "Cancelled", destination |-> "none", phase |-> "none"]

\* w.c.metrics.errors.WithLabelValues(dw.name, phase).Inc()
CountErrorAsConnect(m, d, phase) == [m EXCEPT !.errors[d].connect = @ + 1]
CountError(m, d, phase) ==
    IF phase = "connect" THEN [m EXCEPT !.errors[d].connect = @ + 1]
    ELSE [m EXCEPT !.errors[d].send = @ + 1]

\* insertTime and flows .WithLabelValues(dw.name).Observe(...) on success
ObserveInsert(m, d) ==
    [m EXCEPT !.insertTime[d] = @ + 1, !.flows[d] = @ + 1]

\* after a failed send: if dw.conn != nil { dw.conn.Close(); dw.conn = nil }
ConnKeptAfterSendError(c) == c
ConnAfterSendError(c) == 0
IOAfterSendErrorNoClose(c) == << <<"send", c, FALSE>> >>
IOAfterSendError(c) == << <<"send", c, FALSE>>, <<"close", c, TRUE>> >>

(***************************************************************************)
(* connectDestination                                                      *)
(***************************************************************************)
\* rand.Perm(len(dw.servers))
Perms(n) == { p \in [1..n -> 1..n] : \A i, j \in 1..n : p[i] = p[j] => i = j }

\* the loop over the permutation: dial, then ping; the first server passing
\* both becomes dw.conn; otherwise lastErr is returned
DialLoopNoFailover(d, perm, i, lastErr, tr) ==
    IF i > Len(perm)
    THEN {[err |-> lastErr, conn |-> 0, io |-> tr]}
    ELSE LET s == perm[i] IN
         { IF dialed
           THEN [err |-> "nil", conn |-> s,
                 io |-> tr \o << <<"dial", s, TRUE>>, <<"ping", s, TRUE>> >>]
           ELSE [err |-> "dial", conn |-> 0,
                 io |-> tr \o << <<"dial", s, FALSE>> >>]
           : dialed \in Outcomes(env[d].dial[s]) }
RECURSIVE DialLoop(_, _, _, _, _)
DialLoop(d, perm, i, lastErr, tr) ==
    IF i > Len(perm)
    THEN {[err |-> lastErr, conn |-> 0, io |-> tr]}
    ELSE LET s == perm[i] IN
         UNION { IF ~dialed
                 THEN DialLoop(d, perm, i + 1, "dial",
                               tr \o << <<"dial", s, FALSE>> >>)
                 ELSE UNION { IF pinged
                              THEN {[err |-> "nil", conn |-> s,
                                     io |-> tr \o << <<"dial", s, TRUE>>,
                                                     <<"ping", s, TRUE>> >>]}
                              ELSE DialLoop(d, perm, i + 1, "ping",
                                            tr \o << <<"dial", s, TRUE>>,
                                                     <<"ping", s, FALSE>>,
                                                     <<"close", s, TRUE>> >>)
                              : pinged \in Outcomes(env[d].ping) }
                 : dialed \in Outcomes(env[d].dial[s]) }

\* the possible results of connectDestination(ctx, dw): the error returned,
\* the new dw.conn and the I/O performed
connectDestination(d) ==
    LET redial(tr) ==
            UNION { DialLoop(d, p, 1, "nil", tr)
                    : p \in Perms(destinations[d].servers) }
    IN IF conn[d] # 0
       THEN UNION { IF healthy
                    THEN {[err |-> "nil", conn |-> conn[d],
                           io |-> << <<"ping", conn[d], TRUE>> >>]}
                    ELSE redial(<< <<"ping", conn[d], FALSE>>,
                                   <<"close", conn[d], TRUE>> >>)
                    : healthy \in Outcomes(env[d].ping) }
       ELSE redial(<<>>)

(***************************************************************************)
(* Initial state: NewWorker on a component built by New                    *)
(***************************************************************************)
NoMetrics(n) ==
    [waitTime |-> 0, overloaded |-> 0, underloaded |-> 0,
     errors |-> [d \in 1..n |-> [connect |-> 0, send |-> 0]],
     retriesExceeded |-> [d \in 1..n |-> 0],
     insertTime |-> [d \in 1..n |-> 0],
     flows |-> [d \in 1..n |-> 0]]

Init ==
    /\ \E sc \in Scenarios : destinations = sc.dests /\ env = sc.env
    /\ bf = 0
    /\ last = ZeroTime
    /\ clock = 1
    /\ pc = "idle"
    /\ batchSize = 0
    /\ status = WorkerStatusOK
    /\ conn = [d \in Ds |-> 0]
    /\ tpc = [d \in Ds |-> "none"]
    /\ attempts = [d \in Ds |-> 0]
    /\ result = [d \in Ds |-> "none"]
    /\ ctxDone = FALSE
    /\ metrics = NoMetrics(Len(destinations))
    /\ settings = [d \in Ds |-> "none"]
    /\ handed = {}
    /\ bfOps = NoBfOps
    /\ retErr = [d \in Ds |-> NoError]
    /\ io = <<>>
    /\ act = Step("NewWorker", "none", 0, 0, 0)
    /\ calls = 0

(***************************************************************************)
(* The upstream pipeline and the execution scope                           *)
(***************************************************************************)
\* the owner of the worker appends records between two calls
AppendFlows(n) ==
    /\ pc = "idle"
    /\ calls < MaxCalls
    /\ n > bf
    /\ bf' = n
    /\ io' = <<>>
    /\ act' = Step("AppendFlows", "none", 0, n, 0)
    /\ UNCHANGED <<destinations, env, last, clock, pc, batchSize, status,
                   conn, tpc, attempts, result, ctxDone, metrics, settings,
                   handed, bfOps, retErr, calls>>

\* the context handed to the worker is cancelled
Cancel ==
    /\ ~ctxDone
    /\ ctxDone' = TRUE
    /\ io' = <<>>
    /\ act' = Step("Cancel", "none", 0, bf, 0)
    /\ UNCHANGED <<destinations, env, bf, last, clock, pc, batchSize, status,
                   conn, tpc, attempts, result, metrics, settings, handed,
                   bfOps, retErr, calls>>

(***************************************************************************)
(* Flush: one goroutine per destination writer                             *)
(***************************************************************************)
\* for _, dw := range w.destWriters { g.Go(...) }
SpawnPrimaryOnly ==
    /\ tpc' = [d \in Ds |-> IF d = 1 THEN "op" ELSE "done"]
    /\ attempts' = [d \in Ds |-> 0]
    /\ result' = [d \in Ds |-> IF d = 1 THEN "none" ELSE "nil"]
    /\ settings' = [d \in Ds |-> "none"]
    /\ handed' = {}
    /\ bfOps' = NoBfOps
    /\ retErr' = [d \in Ds |-> IF d = 1 THEN NoError ELSE NilError]
Spawn ==
    /\ tpc' = [d \in Ds |-> "op"]
    /\ attempts' = [d \in Ds |-> 0]
    /\ result' = [d \in Ds |-> "none"]
    /\ settings' = [d \in Ds |-> "none"]
    /\ handed' = {}
    /\ bfOps' = NoBfOps
    /\ retErr' = [d \in Ds |-> NoError]

\* func (w *realWorker) FinalizeAndSend(ctx) up to g.Wait(), or to its
\* return when nothing is spawned; now and t are the two time.Now()
FinalizeAndSend(now, t) ==
    /\ pc = "idle"
    /\ calls < MaxCalls
    /\ clock <= now /\ now <= t
    /\ calls' = calls + 1
    /\ act' = Step("FinalizeAndSend", "FinalizeAndSend", 0, bf,
                 WaitTime(now, last))
    /\ io' = <<>>
    /\ UNCHANGED <<destinations, env, bf, conn, ctxDone>>
    /\ IF Triggered(bf, WaitTime(now, last), primaryConfig)
       THEN IF NothingToFlush(bf)
            THEN /\ last' = t
                 /\ clock' = t
                 /\ status' = LoadStatus(bf, primaryConfig)
                 /\ metrics' = CountStatus(ObserveWait(metrics, last), status')
                 /\ UNCHANGED <<pc, batchSize, tpc, attempts, result,
                                settings, handed, bfOps, retErr>>
            ELSE /\ t = now
                 /\ clock' = now
                 /\ batchSize' = bf
                 /\ metrics' = ObserveWait(metrics, last)
                 /\ pc' = "FinalizeAndSend"
                 /\ Spawn
                 /\ UNCHANGED <<last, status>>
       ELSE /\ t = now
            /\ clock' = now
            /\ status' = WorkerStatusOK
            /\ UNCHANGED <<last, pc, batchSize, tpc, attempts, result, metrics,
                           settings, handed, bfOps, retErr>>

\* func (w *realWorker) Flush(ctx) up to g.Wait(), or to its early return
Flush ==
    /\ pc = "idle"
    /\ calls < MaxCalls
    /\ calls' = calls + 1
    /\ act' = Step("Flush", "Flush", 0, bf, 0)
    /\ io' = <<>>
    /\ UNCHANGED <<destinations, env, bf, last, clock, batchSize, status,
                   conn, ctxDone, metrics>>
    /\ IF NothingToFlush(bf)
       THEN UNCHANGED <<pc, tpc, attempts, result, settings, handed, bfOps,
                        retErr>>
       ELSE pc' = "Flush" /\ Spawn

\* g.Wait() returns, w.bf.Clear(), and the rest of FinalizeAndSend when it
\* is the caller: w.last = time.Now(), the counters and the status
Join(t) ==
    /\ pc # "idle"
    /\ AllReturned(tpc)
    /\ clock <= t
    /\ pc' = "idle"
    /\ act' = Step("Join", pc, 0, bf, 0)
    /\ io' = <<>>
    /\ bf' = FlowCountAfterFlush(bf, result)
    /\ tpc' = [d \in Ds |-> "none"]
    /\ attempts' = [d \in Ds |-> 0]
    /\ result' = [d \in Ds |-> "none"]
    /\ settings' = [d \in Ds |-> "none"]
    /\ handed' = {}
    /\ bfOps' = NoBfOps
    /\ retErr' = [d \in Ds |-> NoError]
    /\ IF pc = "FinalizeAndSend"
       THEN /\ last' = t
            /\ clock' = t
            /\ status' = LoadStatus(batchSize, primaryConfig)
            /\ metrics' = CountStatus(metrics, status')
       ELSE /\ t = clock
            /\ UNCHANGED <<last, clock, status, metrics>>
    /\ batchSize' = 0
    /\ UNCHANGED <<destinations, env, conn, ctxDone, calls>>

(***************************************************************************)
(* flushSingleDestination: backoff.Retry(operation, WithContext(b, ctx))   *)
(***************************************************************************)
\* backoff.WithContext(b, ctx): the policy and the wait between two attempts
\* watch ctx.Done()
BackoffWithoutContext == FALSE
BackoffCtxDone == ctxDone

\* after a failed operation: NextBackOff() is Stop once ctx is done and
\* Retry returns ctx.Err(); otherwise the timer is started
AfterFailure(d) ==
    IF BackoffCtxDone
    THEN /\ tpc' = [tpc EXCEPT ![d] = "done"]
         /\ result' = [result EXCEPT ![d] = "Cancelled"]
         /\ retErr' = [retErr EXCEPT ![d] = CtxErr]
    ELSE /\ tpc' = [tpc EXCEPT ![d] = "backoff"]
         /\ UNCHANGED <<result, retErr>>

\* the operation closure up to the send: attempts++, the retry ceiling,
\* connectDestination
Operation(d) ==
    /\ d \in Ds
    /\ tpc[d] = "op"
    /\ act' = Step("Operation", pc, d, bf, 0)
    /\ attempts' = [attempts EXCEPT ![d] = @ + 1]
    /\ UNCHANGED <<destinations, env, bf, last, clock, pc, batchSize, status,
                   handed, calls>>
    /\ IF attempts[d] = 0
       THEN \* the goroutine starts: the settings are chosen before Retry
            /\ settings' = [settings EXCEPT
                              ![d] = SettingsOf(bf, destinations[d].config)]
            /\ bfOps' = BfOpsAfterSettings(bfOps)
       ELSE UNCHANGED <<settings, bfOps>>
    /\ IF Exhausted(attempts[d] + 1, MaxAttemptsOf(destinations[d].maxRetries))
       THEN /\ metrics' = [metrics EXCEPT !.retriesExceeded[d] = @ + 1]
            /\ result' = [result EXCEPT ![d] = "RetryExhausted"]
            /\ retErr' = [retErr EXCEPT ![d] = MaxRetriesExceeded(d)]
            /\ tpc' = [tpc EXCEPT ![d] = "done"]
            /\ ctxDone' = (ctxDone \/ GroupCancels("RetryExhausted"))
            /\ io' = <<>>
            /\ UNCHANGED conn
       ELSE \E o \in connectDestination(d) :
            /\ conn' = [conn EXCEPT ![d] = o.conn]
            /\ io' = o.io
            /\ UNCHANGED ctxDone
            /\ IF o.err = "nil"
               THEN /\ tpc' = [tpc EXCEPT ![d] = "send"]
                    /\ UNCHANGED <<metrics, result, retErr>>
               ELSE /\ metrics' = CountError(metrics, d, "connect")
                    /\ AfterFailure(d)

\* dw.conn.Do(ctx, query) and what follows it in the operation closure
Send(d) ==
    /\ d \in Ds
    /\ tpc[d] = "send"
    /\ act' = Step("Send", pc, d, bf, 0)
    /\ UNCHANGED <<destinations, env, bf, last, clock, pc, batchSize, status,
                   attempts, ctxDone, settings, calls>>
    /\ handed' = handed \cup {Query(bf, settings[d]).Input}
    /\ bfOps' = BfOpsAfterSend(bfOps)
    /\ IF conn[d] = 0
       THEN \* nil pointer dereference: the process panics
            /\ tpc' = [tpc EXCEPT ![d] = "panic"]
            /\ io' = <<>>
            /\ UNCHANGED <<conn, metrics, result, retErr>>
       ELSE \E sent \in Outcomes(env[d].send) :
            IF sent
            THEN /\ io' = << <<"send", conn[d], TRUE>> >>
                 /\ metrics' = ObserveInsert(metrics, d)
                 /\ result' = [result EXCEPT ![d] = "nil"]
                 /\ retErr' = [retErr EXCEPT ![d] = NilError]
                 /\ tpc' = [tpc EXCEPT ![d] = "done"]
                 /\ UNCHANGED conn
            ELSE /\ io' = IOAfterSendError(conn[d])
                 /\ metrics' = CountError(metrics, d, "send")
                 /\ conn' = [conn EXCEPT ![d] = ConnAfterSendError(conn[d])]
                 /\ AfterFailure(d)

\* case <-t.C(): the backoff interval has elapsed, the operation is retried
Timer(d) ==
    /\ d \in Ds
    /\ tpc[d] = "backoff"
    /\ attempts[d] < MaxAttempts
    /\ tpc' = [tpc EXCEPT ![d] = "op"]
    /\ io' = <<>>
    /\ act' = Step("Timer", pc, d, bf, 0)
    /\ UNCHANGED <<destinations, env, bf, last, clock, pc, batchSize, status,
                   conn, attempts, result, ctxDone, metrics, settings, handed,
                   bfOps, retErr, calls>>

\* case <-ctx.Done(): return ctx.Err()
CtxDone(d) ==
    /\ d \in Ds
    /\ tpc[d] = "backoff"
    /\ BackoffCtxDone
    /\ tpc' = [tpc EXCEPT ![d] = "done"]
    /\ result' = [result EXCEPT ![d] = "Cancelled"]
    /\ retErr' = [retErr EXCEPT ![d] = CtxErr]
    /\ io' = <<>>
    /\ act' = Step("CtxDone", pc, d, bf, 0)
    /\ UNCHANGED <<destinations, env, bf, last, clock, pc, batchSize, status,
                   conn, attempts, ctxDone, metrics, settings, handed, bfOps,
                   calls>>

Next ==
    \/ \E n \in BatchCounts : AppendFlows(n)
    \/ Cancel
    \/ \E now, t \in 1..MaxTime : FinalizeAndSend(now, t)
    \/ Flush
    \/ \E t \in 1..MaxTime : Join(t)
    \/ \E d \in DestIds : Operation(d)
    \/ \E d \in DestIds : Send(d)
    \/ \E d \in DestIds : Timer(d)
    \/ \E d \in DestIds : CtxDone(d)

Spec == Init /\ [][Next]_vars

\* every goroutine keeps running, timers fire, and g.Wait() returns once
\* all goroutines have
Fairness ==
    /\ \A d \in DestIds : WF_vars(Operation(d))
    /\ \A d \in DestIds : WF_vars(Send(d))
    /\ \A d \in DestIds : WF_vars(Timer(d) \/ CtxDone(d))
    /\ WF_vars(\E t \in 1..MaxTime : Join(t))

FairSpec == Spec /\ Fairness

\* the workers NewWorker builds from any configuration, validated or not
InitUnvalidated ==
    /\ \E sc \in Configurations : destinations = sc.dests /\ env = sc.env
    /\ bf = 0
    /\ last = ZeroTime
    /\ clock = 1
    /\ pc = "idle"
    /\ batchSize = 0
    /\ status = WorkerStatusOK
    /\ conn = [d \in Ds |-> 0]
    /\ tpc = [d \in Ds |-> "none"]
    /\ attempts = [d \in Ds |-> 0]
    /\ result = [d \in Ds |-> "none"]
    /\ ctxDone = FALSE
    /\ metrics = NoMetrics(Len(destinations))
    /\ settings = [d \in Ds |-> "none"]
    /\ handed = {}
    /\ bfOps = NoBfOps
    /\ retErr = [d \in Ds |-> NoError]
    /\ io = <<>>
    /\ act = Step("NewWorker", "none", 0, 0, 0)
    /\ calls = 0

SpecUnvalidated == InitUnvalidated /\ [][Next]_vars

(***************************************************************************)
(* Properties                                                              *)
(***************************************************************************)
\* the thresholds of the first configured destination, read off the
\* destination list
PrimaryMaximumBatchSize ==
    IF destinations = <<>> THEN 0 ELSE destinations[1].config.MaximumBatchSize
PrimaryMaximumWaitTime ==
    IF destinations = <<>> THEN 0 ELSE destinations[1].config.MaximumWaitTime
Crossed(s, w) == s >= PrimaryMaximumBatchSize \/ w >= PrimaryMaximumWaitTime

\* the step is the entry of a flush: the goroutines of all destinations are
\* started and the call blocks in g.Wait()
FlushStarts ==
    /\ pc = "idle" /\ pc' # "idle"
    /\ \A d \in Ds : tpc'[d] = "op" /\ attempts'[d] = 0

\* C1 as stated: a FinalizeAndSend call that sees batch size s and wait time
\* w starts a flush if and only if s >= MaximumBatchSize or
\* w >= MaximumWaitTime of the primary, s = 0 and the first call included;
\* otherwise the buffer and the last-flush time are unchanged.
C1_FlushIffThreshold ==
    [][act'.op = "FinalizeAndSend" =>
         /\ FlushStarts <=> Crossed(act'.batchSize, act'.waitTime)
         /\ ~Crossed(act'.batchSize, act'.waitTime)
               => bf' = bf /\ last' = last]_vars

\* C1 amended: a FinalizeAndSend call that sees batch size s and wait time w
\* starts a flush if and only if s > 0 and (s >= MaximumBatchSize or
\* w >= MaximumWaitTime); when no threshold is crossed the buffer and the
\* last-flush time are unchanged; when a threshold is crossed with s = 0
\* no goroutine is started, the buffer stays empty and the last-flush time
\* is reset all the same.
C1_FlushIffThresholdAndNonEmpty ==
    [][act'.op = "FinalizeAndSend" =>
         LET s == act'.batchSize
             w == act'.waitTime
         IN /\ s = bf
            /\ last = ZeroTime => w = MaxDuration
            /\ last # ZeroTime => clock - last <= w /\ w <= clock' - last
            /\ FlushStarts <=> (s > 0 /\ Crossed(s, w))
            /\ FlushStarts => bf' = bf /\ pc' = "FinalizeAndSend"
            /\ ~Crossed(s, w) => bf' = bf /\ last' = last /\ pc' = "idle"
            /\ (Crossed(s, w) /\ s = 0)
                  => /\ bf' = 0 /\ pc' = "idle" /\ tpc' = tpc
                     /\ last' = clock' /\ last' # ZeroTime]_vars

\* C1 witness: a flush started by the wait time alone, on a worker that has
\* flushed before, with a batch below MaximumBatchSize
C1_Witness ==
    /\ act.op = "FinalizeAndSend"
    /\ pc = "FinalizeAndSend"
    /\ act.batchSize > 0
    /\ act.batchSize < PrimaryMaximumBatchSize
    /\ act.waitTime >= PrimaryMaximumWaitTime
    /\ last # ZeroTime

\* C2: when a flush returns, forced (Flush) or triggered (FinalizeAndSend),
\* the buffer holds no record, whatever each destination returned.
C2_BufferClearedAfterFlush ==
    [][(\/ act'.op = "Join"
        \/ act'.op = "Flush" /\ pc' = "idle"
        \/ /\ act'.op = "FinalizeAndSend" /\ pc' = "idle"
           /\ Crossed(act'.batchSize, act'.waitTime))
       => bf' = 0]_vars

\* C2 witness: a flush of a non-empty batch has returned although no
\* destination ever accepted a batch, one having exhausted its retries
C2_Witness ==
    /\ act.op = "Join"
    /\ act.batchSize > 0
    /\ bf = 0
    /\ Len(destinations) = 2
    /\ \A d \in Ds : metrics.insertTime[d] = 0
    /\ \E d \in Ds : metrics.retriesExceeded[d] > 0

\* the steps taken by the goroutine of a destination
TaskOps == {"Operation", "Send", "Timer", "CtxDone"}

\* every dial, ping and send of the destination succeeds while ctx is live
AlwaysSucceeds(d) ==
    /\ \A s \in DOMAIN env[d].dial : env[d].dial[s] = "ok"
    /\ env[d].ping = "ok"
    /\ env[d].send = "ok"

\* every attempt on the destination fails: no server accepts a connection,
\* or every ping fails, or every send fails
AlwaysFails(d) ==
    \/ \A s \in DOMAIN env[d].dial : env[d].dial[s] = "fail"
    \/ env[d].ping = "fail"
    \/ env[d].send = "fail"

\* C3: within one flush a destination that always fails and has a non-zero
\* MaxRetries does not cancel, abort or prevent the goroutines of the other
\* destinations: a step of one goroutine changes neither ctx nor the state
\* of another destination; when the flush returns with ctx live, every
\* always-succeeding destination has written the batch successfully, once,
\* at its first attempt; and a flush whose destinations all either always
\* succeed or have a retry ceiling returns.
C3_IndependentFailure ==
    /\ [][act'.op \in TaskOps =>
            /\ ctxDone' = ctxDone
            /\ \A e \in Ds \ {act'.dest} :
                  /\ tpc'[e] = tpc[e] /\ result'[e] = result[e]
                  /\ attempts'[e] = attempts[e] /\ conn'[e] = conn[e]
                  /\ metrics'.insertTime[e] = metrics.insertTime[e]]_vars
    /\ [][(act'.op = "Join" /\ ~ctxDone) =>
            \A d \in Ds : AlwaysSucceeds(d) =>
                result[d] = "nil" /\ attempts[d] = 1]_vars
    /\ [][\A d \in Ds :
            metrics'.insertTime[d] # metrics.insertTime[d] =>
                /\ metrics'.insertTime[d] = metrics.insertTime[d] + 1
                /\ act'.op = "Send" /\ act'.dest = d
                /\ io' = << <<"send", conn[d], TRUE>> >>
                /\ tpc'[d] = "done" /\ result'[d] = "nil"]_vars
    /\ ((pc # "idle" /\ \A d \in Ds :
            AlwaysSucceeds(d) \/ destinations[d].maxRetries > 0)
          ~> pc = "idle")

\* C3 witness: with ctx live, every goroutine of a flush has returned; the
\* destination with a retry ceiling that always fails has given up and the
\* always-succeeding one has written the batch
C3_Witness ==
    /\ pc # "idle"
    /\ ~ctxDone
    /\ \A d \in Ds : tpc[d] = "done"
    /\ \E d \in Ds :
          /\ AlwaysFails(d) /\ destinations[d].maxRetries > 0
          /\ result[d] = "RetryExhausted"
    /\ \E d \in Ds :
          /\ AlwaysSucceeds(d) /\ result[d] = "nil"
          /\ metrics.insertTime[d] = 1

\* C4: the buffer is not cleared, nor changed at all, while a goroutine of
\* the current flush has not returned; it is cleared in the step in which
\* g.Wait() returns, when all of them have.
C4_ClearAfterAllReturned ==
    /\ [][(\E d \in Ds : tpc[d] \in {"op", "send", "backoff"})
             => bf' = bf]_vars
    /\ [][(bf' = 0 /\ bf # 0) =>
             /\ act'.op = "Join"
             /\ \A d \in Ds : tpc[d] = "done" /\ result[d] # "none"]_vars

\* C4 witness: the buffer was cleared after a flush in which one destination
\* wrote the batch and another one gave up
C4_Witness ==
    /\ act.op = "Join"
    /\ act.batchSize > 0
    /\ bf = 0
    /\ \E d \in Ds : metrics.insertTime[d] > 0
    /\ \E d \in Ds : metrics.retriesExceeded[d] > 0

\* C5: a destination with MaxRetries = N > 0 gives up (RetryExhausted) in
\* the invocation of the operation that follows its N-th attempt: that
\* invocation connects and sends nothing, increments the retry-exhaustion
\* counter of the destination by one, and ends the call; every earlier
\* invocation made one attempt (a connect and, if connected, a send); with
\* ctx live a call of such a destination ends by success or RetryExhausted.
C5_BoundedRetries ==
    /\ [](\A d \in Ds :
            /\ destinations[d].maxRetries > 0
                 => attempts[d] <= destinations[d].maxRetries + 1
            /\ result[d] = "RetryExhausted" =>
                 /\ destinations[d].maxRetries > 0
                 /\ attempts[d] = destinations[d].maxRetries + 1
                 /\ tpc[d] = "done"
            /\ (destinations[d].maxRetries > 0 /\ tpc[d] = "done" /\ ~ctxDone)
                 => result[d] \in {"nil", "RetryExhausted"})
    /\ [][\A d \in Ds :
            (result'[d] = "RetryExhausted" /\ result[d] # "RetryExhausted") =>
                /\ act'.op = "Operation" /\ act'.dest = d
                /\ attempts[d] = destinations[d].maxRetries
                /\ io' = <<>> /\ conn' = conn
                /\ metrics'.errors = metrics.errors
                /\ metrics'.retriesExceeded[d]
                      = metrics.retriesExceeded[d] + 1]_vars
    /\ [][\A d \in Ds :
            metrics'.retriesExceeded[d] # metrics.retriesExceeded[d] =>
                result'[d] = "RetryExhausted" /\ result[d] = "none"]_vars
    /\ [][act'.op = "Operation" =>
            /\ tpc[act'.dest] = "op"
            /\ attempts'[act'.dest] = attempts[act'.dest] + 1
            /\ result'[act'.dest] # "RetryExhausted" => io' # <<>>]_vars
    /\ [][(act'.op \in TaskOps) => tpc[act'.dest] # "done"]_vars

\* C5 witness: with ctx live, a destination with MaxRetries = 2 has given up
\* at the third invocation, after two failed attempts
C5_Witness ==
    \E d \in Ds :
        /\ destinations[d].maxRetries = 2
        /\ result[d] = "RetryExhausted"
        /\ attempts[d] = 3
        /\ ~ctxDone
        /\ metrics.errors[d].connect + metrics.errors[d].send = 2
        /\ metrics.retriesExceeded[d] = 1

\* C6: a destination with MaxRetries = 0 never gives up: its call never
\* returns RetryExhausted and never increments the retry-exhaustion counter;
\* the call ends only by a successful write or, once ctx is cancelled, with
\* the cancellation error.
C6_UnboundedNeverExhausts ==
    \A d \in Ds : destinations[d].maxRetries = 0 =>
        /\ result[d] # "RetryExhausted"
        /\ metrics.retriesExceeded[d] = 0
        /\ tpc[d] = "done" => result[d] \in {"nil", "Cancelled"}
        /\ result[d] = "Cancelled" => ctxDone

\* C6 witness: with ctx live, a destination with MaxRetries = 0 has failed
\* as many attempts as the model observes and is waiting to retry
C6_Witness ==
    \E d \in Ds :
        /\ destinations[d].maxRetries = 0
        /\ attempts[d] = MaxAttempts
        /\ metrics.errors[d].connect + metrics.errors[d].send >= MaxAttempts
        /\ tpc[d] = "backoff"
        /\ ~ctxDone

\* C7: when a flush completes (g.Wait() returns and the buffer is cleared),
\* every destination with MaxRetries = 0 has written the batch successfully
\* or has returned the cancellation error after ctx was cancelled.
C7_UnboundedStallsFlush ==
    [][(act'.op = "Join" \/ (bf' = 0 /\ bf # 0)) =>
         \A d \in Ds : destinations[d].maxRetries = 0 =>
             \/ result[d] = "nil"
             \/ result[d] = "Cancelled" /\ ctxDone]_vars

\* C7 witness: with ctx live, a flush has completed whose destination with
\* MaxRetries = 0 failed at first and then wrote the batch
C7_Witness ==
    /\ act.op = "Join"
    /\ bf = 0
    /\ ~ctxDone
    /\ \E d \in Ds :
          /\ destinations[d].maxRetries = 0
          /\ metrics.errors[d].connect + metrics.errors[d].send > 0
          /\ metrics.insertTime[d] = 1

\* a FinalizeAndSend call whose threshold test passed returns in this step:
\* from g.Wait(), or at once when the buffer is empty
TriggeredReturn ==
    \/ act'.op = "Join" /\ act'.call = "FinalizeAndSend"
    \/ /\ act'.op = "FinalizeAndSend" /\ pc' = "idle"
       /\ Crossed(act'.batchSize, act'.waitTime)

C9_NoThresholdNoIO ==
    [][(act'.op = "FinalizeAndSend"
          /\ ~Crossed(act'.batchSize, act'.waitTime)) =>
         /\ io' = <<>>
         /\ conn' = conn
         /\ tpc' = tpc /\ attempts' = attempts /\ result' = result
         /\ metrics' = metrics
         /\ bf' = bf /\ last' = last
         /\ pc' = "idle"
         /\ status' = WorkerStatusOK]_vars

\* C9 witness: a call on a non-empty buffer that crossed no threshold has
\* returned
C9_Witness ==
    /\ act.op = "FinalizeAndSend"
    /\ act.batchSize > 0
    /\ ~Crossed(act.batchSize, act.waitTime)
    /\ pc = "idle"
    /\ status = WorkerStatusOK

\* the goroutine of destination d returns in this step without having
\* written the batch
ReturnsError(d) ==
    tpc[d] # "done" /\ tpc'[d] = "done" /\ result'[d] # "nil"

\* C10 as stated: once ctx is cancelled the flush call eventually returns,
\* and every goroutine that returns without having written the batch
\* returns the cancellation error.
C10_CancellationUnblocks ==
    /\ (ctxDone ~> pc = "idle")
    /\ [][\A d \in Ds : (ctxDone /\ ReturnsError(d))
             => result'[d] = "Cancelled"]_vars

\* C10 amended: once ctx is cancelled the flush call eventually returns,
\* also when a destination with MaxRetries = 0 fails for ever: every
\* invocation of the operation and every send that starts after the
\* cancellation ends the goroutine. A goroutine that returns without having
\* written the batch returns the cancellation error, except that a
\* destination with a retry ceiling whose attempts were used up before the
\* cancellation, and whose operation is invoked once more, returns
\* RetryExhausted.
C10_CancellationUnblocksOrExhausted ==
    /\ (ctxDone ~> pc = "idle")
    /\ [][(ctxDone /\ act'.op \in {"Operation", "Send", "CtxDone"})
             => tpc'[act'.dest] = "done"]_vars
    /\ [][\A d \in Ds : (ctxDone /\ ReturnsError(d)) =>
             \/ result'[d] = "Cancelled"
             \/ /\ result'[d] = "RetryExhausted"
                /\ destinations[d].maxRetries > 0
                /\ attempts[d] = destinations[d].maxRetries
                /\ act'.op = "Operation" /\ io' = <<>>]_vars

\* C10 witness: after the cancellation of ctx a flush has returned whose
\* destination with MaxRetries = 0 never wrote the batch
C10_Witness ==
    /\ act.op = "Join"
    /\ ctxDone
    /\ bf = 0
    /\ \E d \in Ds :
          /\ destinations[d].maxRetries = 0
          /\ AlwaysFails(d)
          /\ metrics.insertTime[d] = 0
          /\ metrics.errors[d].connect > 0

\* C11: cancellation and retry exhaustion are distinct outcomes of one call
\* of flushSingleDestination: a call returns the cancellation error only
\* once ctx is done, and the step that returns it leaves the
\* retry-exhaustion counter alone; a call returns RetryExhausted only when
\* its attempt count has passed the non-zero MaxRetries of the destination;
\* the counter moves only in the step that returns RetryExhausted; and the
\* outcome of a call that has returned does not change, nor does the counter
\* of its destination, until the flush ends.
C11_CancelledOrExhausted ==
    /\ [](\A d \in Ds :
            /\ retErr[d].kind = result[d]
            /\ result[d] = "Cancelled" => ctxDone
            /\ result[d] = "RetryExhausted" =>
                  /\ destinations[d].maxRetries > 0
                  /\ attempts[d] > destinations[d].maxRetries)
    /\ [][\A d \in Ds :
            (result'[d] = "Cancelled" /\ result[d] # "Cancelled") =>
                metrics'.retriesExceeded[d] = metrics.retriesExceeded[d]]_vars
    /\ [][\A d \in Ds :
            metrics'.retriesExceeded[d] # metrics.retriesExceeded[d] =>
                result'[d] = "RetryExhausted"]_vars
    /\ [][\A d \in Ds :
            (tpc[d] = "done" /\ act'.op # "Join") =>
                /\ result'[d] = result[d] /\ tpc'[d] = "done"
                /\ metrics'.retriesExceeded[d]
                      = metrics.retriesExceeded[d]]_vars

\* C11 witness: a destination with a retry ceiling, its attempts not yet
\* used up, has returned the cancellation error and counted no exhaustion
C11_Witness ==
    \E d \in Ds :
        /\ destinations[d].maxRetries > 0
        /\ tpc[d] = "done"
        /\ result[d] = "Cancelled"
        /\ attempts[d] > 0
        /\ attempts[d] <= destinations[d].maxRetries
        /\ metrics.retriesExceeded[d] = 0

\* exactly one candidate server of the destination accepts connections, and
\* liveness probes pass while ctx is live
OneHealthyServer(d) ==
    /\ Cardinality({s \in DOMAIN env[d].dial : env[d].dial[s] = "ok"}) = 1
    /\ \A s \in DOMAIN env[d].dial : env[d].dial[s] \in {"ok", "fail"}
    /\ env[d].ping = "ok"
HealthyServer(d) == CHOOSE s \in DOMAIN env[d].dial : env[d].dial[s] = "ok"

\* no server is dialed in the I/O trace
NoDial(tr) == \A i \in DOMAIN tr : tr[i][1] # "dial"

\* an invocation of the operation, with ctx live, that goes on to connect
Connects(d) ==
    /\ act'.op = "Operation" /\ act'.dest = d
    /\ ~ctxDone
    /\ result'[d] # "RetryExhausted"

\* C12: with one healthy server among the candidates a connect succeeds on
\* that server whatever the permutation; an attempt that finds a connection
\* whose liveness probe passes reuses it and dials no server, in the same
\* flush and in every later flush; the connection is kept by a successful
\* send and by the end of a flush, and is given up only when a send or a
\* probe on it fails.
C12_FailoverAndReuse ==
    /\ [][\A d \in Ds : (OneHealthyServer(d) /\ Connects(d)) =>
            /\ tpc'[d] = "send" /\ conn'[d] = HealthyServer(d)
            /\ conn[d] # 0 <=> NoDial(io')]_vars
    /\ [][\A d \in Ds :
            (act'.op = "Operation" /\ act'.dest = d /\ conn[d] # 0
               /\ io' # <<>> /\ io'[1] = <<"ping", conn[d], TRUE>>) =>
                /\ io' = << <<"ping", conn[d], TRUE>> >>
                /\ conn'[d] = conn[d] /\ tpc'[d] = "send"]_vars
    /\ [][\A d \in Ds : (conn[d] # 0 /\ conn'[d] # conn[d]) =>
            /\ act'.dest = d
            /\ \/ /\ act'.op = "Send" /\ conn'[d] = 0
                  /\ io' = << <<"send", conn[d], FALSE>>,
                              <<"close", conn[d], TRUE>> >>
               \/ /\ act'.op = "Operation"
                  /\ io'[1] = <<"ping", conn[d], FALSE>>
                  /\ io'[2] = <<"close", conn[d], TRUE>>]_vars

\* C12 witness: in a later flush, the destination with one healthy server
\* out of three has reused the connection of an earlier flush: one passing
\* probe and no dial
C12_Witness ==
    \E d \in Ds :
        /\ OneHealthyServer(d)
        /\ Cardinality(DOMAIN env[d].dial) = 3
        /\ act.op = "Operation" /\ act.dest = d
        /\ metrics.insertTime[d] > 0
        /\ attempts[d] = 1
        /\ conn[d] = HealthyServer(d)
        /\ io = << <<"ping", conn[d], TRUE>> >>

\* C13: within one flush every input handed to a destination is the same,
\* the records of the buffer at the start of the flush, on every attempt and
\* whatever settings (async or default) each destination selected; the
\* buffer does not change while the attempts are made.
C13_SamePayload ==
    /\ [](Cardinality(handed) <= 1)
    /\ [](\A q \in handed : q.rows = bf /\ bf > 0)
    /\ [](pc = "FinalizeAndSend" => bf = batchSize)
    /\ [][act'.op = "Send" =>
            /\ handed' # {} /\ handed \subseteq handed'
            /\ bf' = bf]_vars

\* C13 witness: in one flush a destination using the default settings has
\* been handed the batch on a failed attempt, and a destination using the
\* async settings has written it
C13_Witness ==
    /\ Len(destinations) = 2
    /\ handed # {}
    /\ settings[1] = "default" /\ settings[2] = "async"
    /\ result[1] = "RetryExhausted" /\ attempts[1] >= 2
    /\ result[2] = "nil"

\* C14 as stated: when a flush ends, the input of the buffer has been
\* produced once.
C14_SerializedOnce ==
    [][act'.op = "Join" => bfOps.ClickHouseProtoInput = 1]_vars

\* C14 amended: a flush does not produce the input of the buffer once:
\* every send attempt of every destination takes it from the buffer twice
\* (query body and query input), and nothing else does; the count in one
\* flush is twice the number of send attempts, 0 when no destination
\* connects.
C14_InputTakenTwicePerSend ==
    /\ [][act'.op = "Send" =>
            bfOps'.ClickHouseProtoInput = bfOps.ClickHouseProtoInput + 2]_vars
    /\ [][bfOps'.ClickHouseProtoInput # bfOps.ClickHouseProtoInput =>
            \/ act'.op = "Send"
            \/ /\ act'.op \in {"Join", "FinalizeAndSend", "Flush"}
               /\ bfOps'.ClickHouseProtoInput = 0]_vars
    /\ [](bfOps.ClickHouseProtoInput % 2 = 0)
    /\ []((\A d \in Ds : metrics.errors[d].send + metrics.insertTime[d] = 0)
             => bfOps.ClickHouseProtoInput = 0)

\* C14 witness: a flush to a single destination has taken the input of the
\* buffer four times, in two send attempts
C14_Witness ==
    /\ Len(destinations) = 1
    /\ act.op = "Send"
    /\ attempts[1] = 2
    /\ bfOps.ClickHouseProtoInput = 4

\* C15 as stated: no step of a destination goroutine performs an operation
\* on the buffer.
C15_NoBufferOperationInTask ==
    [][act'.op \in TaskOps => bfOps' = bfOps]_vars

\* C15 amended: the goroutines of the destinations never change the buffer
\* (no clear, no append), but they read it directly: each one counts its
\* records once when it starts, to select the settings, and every send
\* attempt takes the input of the buffer twice and counts its records once
\* more; waiting for the backoff and returning on cancellation read nothing.
C15_TasksReadButNeverMutate ==
    /\ [](bfOps.Clear = 0)
    /\ [][act'.op \in TaskOps => bf' = bf]_vars
    /\ [][act'.op = "Operation" =>
            /\ bfOps'.FlowCount = bfOps.FlowCount
                  + (IF attempts[act'.dest] = 0 THEN 1 ELSE 0)
            /\ bfOps'.ClickHouseProtoInput = bfOps.ClickHouseProtoInput
            /\ attempts[act'.dest] = 0 =>
                  settings'[act'.dest] \in {"async", "default"}]_vars
    /\ [][act'.op = "Send" =>
            /\ bfOps'.FlowCount = bfOps.FlowCount + 1
            /\ bfOps'.ClickHouseProtoInput
                  = bfOps.ClickHouseProtoInput + 2]_vars
    /\ [][act'.op \in {"Timer", "CtxDone"} => bfOps' = bfOps]_vars

\* C15 witness: the two goroutines of a flush have each counted the records
\* of the buffer at their start, and one has sent
C15_Witness ==
    /\ Len(destinations) = 2
    /\ act.op = "Send"
    /\ \A d \in Ds : attempts[d] > 0
    /\ bfOps.FlowCount = 3
    /\ bfOps.ClickHouseProtoInput = 2

\* C16: Flush on an empty buffer does nothing: no goroutine, no dial, probe
\* or send, no connection changed, no metric recorded, the buffer left
\* empty; on a non-empty buffer it starts a flush to every destination,
\* whatever the thresholds and the time elapsed since the last flush.
C16_ForceFlush ==
    [][act'.op = "Flush" =>
         IF bf = 0
         THEN /\ io' = <<>> /\ bf' = 0 /\ pc' = "idle"
              /\ UNCHANGED <<conn, tpc, attempts, result, metrics, last,
                             status, handed, bfOps, retErr, ctxDone>>
         ELSE /\ FlushStarts /\ pc' = "Flush"
              /\ bf' = bf /\ metrics' = metrics /\ last' = last]_vars

\* C16 witness: a forced flush of a batch below MaximumBatchSize has started
\* before MaximumWaitTime has elapsed since the last flush
C16_Witness ==
    /\ act.op = "Flush"
    /\ pc = "Flush"
    /\ bf > 0 /\ bf < PrimaryMaximumBatchSize
    /\ last # ZeroTime
    /\ clock - last < PrimaryMaximumWaitTime
    /\ \A d \in Ds : tpc[d] = "op"

\* the Load Signal of a call that saw batch size s and wait time w, from the
\* thresholds of the first destination alone
Signal(s, w) ==
    IF ~Crossed(s, w) THEN WorkerStatusOK
    ELSE IF s >= PrimaryMaximumBatchSize THEN WorkerStatusOverloaded
    ELSE IF s <= PrimaryMaximumBatchSize \div minimumBatchSizeDivider
         THEN WorkerStatusUnderloaded
         ELSE WorkerStatusOK

\* C17: the trigger decision and the status returned by FinalizeAndSend are
\* a function of the batch size and the wait time the call saw and of the
\* thresholds of the first destination only: whatever the destinations
\* returned (success, retry exhaustion, cancellation) and whatever the
\* thresholds of the other destinations, the call returns Signal(s, w); what
\* is returned is always one of the three statuses, never an error.
C17_SignalOfPrimaryOnly ==
    /\ [](status \in {WorkerStatusOK, WorkerStatusOverloaded,
                      WorkerStatusUnderloaded})
    /\ [][act'.op = "FinalizeAndSend" =>
            /\ pc' # "idle" <=> (act'.batchSize > 0
                  /\ Crossed(act'.batchSize, act'.waitTime))
            /\ pc' = "idle" =>
                  status' = Signal(act'.batchSize, act'.waitTime)
            /\ pc' # "idle" => batchSize' = act'.batchSize]_vars
    /\ [][(act'.op = "Join" /\ act'.call = "FinalizeAndSend") =>
            status' = Signal(batchSize, MaxDuration)]_vars
    /\ [][act'.op \notin {"Join", "FinalizeAndSend"} =>
            status' = status]_vars

\* C17 witness: a triggered flush of a full batch to two destinations with
\* different thresholds has returned Overloaded although no destination
\* wrote the batch and the scope was cancelled
C17_Witness ==
    /\ act.op = "Join" /\ act.call = "FinalizeAndSend"
    /\ Len(destinations) = 2
    /\ destinations[1].config # destinations[2].config
    /\ ctxDone
    /\ \A d \in Ds : metrics.insertTime[d] = 0
    /\ act.batchSize >= PrimaryMaximumBatchSize
    /\ status = WorkerStatusOverloaded

\* C18: the primary (first) destination never reaches retry exhaustion: its
\* call never returns RetryExhausted and its retry-exhaustion counter stays
\* at zero, so its batch is never dropped by giving up.
C18_PrimaryNeverExhausts ==
    Len(destinations) > 0 =>
        /\ result[1] # "RetryExhausted"
        /\ metrics.retriesExceeded[1] = 0

\* C19 as stated: the error returned by a call that did not succeed names
\* the destination and the phase that failed, connect or send.
C19_ErrorNamesDestinationAndPhase ==
    \A d \in Ds :
        (tpc[d] = "done" /\ result[d] # "nil") =>
            /\ retErr[d].destination = destinations[d].name
            /\ retErr[d].phase \in {"connect", "send"}

\* C19 amended: the error returned by a call that did not succeed names the
\* destination only when the call ended by retry exhaustion, and never the
\* phase that failed; the cancellation error names neither. The destination
\* and the phase of every failed attempt are recorded instead by the error
\* counter of the destination: a failed connect counts under connect, a
\* failed send under send.
C19_ErrorNamesDestinationOnlyWhenExhausted ==
    /\ [](\A d \in Ds : tpc[d] = "done" =>
            /\ retErr[d].kind = result[d]
            /\ retErr[d].phase = "none"
            /\ result[d] = "RetryExhausted" =>
                  retErr[d].destination = destinations[d].name
            /\ result[d] # "RetryExhausted" =>
                  retErr[d].destination = "none")
    /\ [][\A d \in Ds :
            (act'.op = "Operation" /\ act'.dest = d
               /\ result'[d] # "RetryExhausted" /\ tpc'[d] # "send") =>
                /\ metrics'.errors[d].connect = metrics.errors[d].connect + 1
                /\ metrics'.errors[d].send = metrics.errors[d].send]_vars
    /\ [][\A d \in Ds :
            (act'.op = "Send" /\ act'.dest = d /\ result'[d] # "nil") =>
                /\ metrics'.errors[d].send = metrics.errors[d].send + 1
                /\ metrics'.errors[d].connect
                      = metrics.errors[d].connect]_vars

\* C19 witness: in one flush a destination has given up after failed sends
\* and another one has returned the cancellation error after failed connects
C19_Witness ==
    /\ \E d \in Ds :
          /\ tpc[d] = "done" /\ result[d] = "RetryExhausted"
          /\ metrics.errors[d].send > 0
    /\ \E d \in Ds :
          /\ tpc[d] = "done" /\ result[d] = "Cancelled"
          /\ metrics.errors[d].connect > 0

\* C20 as stated: every flush started by FinalizeAndSend records one
\* wait-time observation before any destination write starts, and the
\* last-flush time is set when the flush has completed.
C20_ObservationOnEveryFlush ==
    /\ [][(act'.op = "FinalizeAndSend" /\ FlushStarts) =>
            metrics'.waitTime = metrics.waitTime + 1]_vars
    /\ [][(act'.op = "Join" /\ act'.call = "FinalizeAndSend") =>
            last' = clock' /\ last' >= clock]_vars

\* C20 amended: a flush started by FinalizeAndSend records one wait-time
\* observation, before any destination write starts, except the first flush
\* of a fresh worker (no last-flush time yet), which records none; the
\* goroutines and the end of the flush record none; the last-flush time is
\* left alone while the flush runs and is set, after every goroutine has
\* returned, to the time read when the flush has completed.
C20_ObservationUnlessFirstFlush ==
    /\ [][(act'.op = "FinalizeAndSend" /\ FlushStarts) =>
            /\ metrics'.waitTime
                  = metrics.waitTime + (IF last = ZeroTime THEN 0 ELSE 1)
            /\ \A d \in Ds : attempts'[d] = 0 /\ tpc'[d] = "op"
            /\ io' = <<>>
            /\ last' = last]_vars
    /\ [][act'.op \in TaskOps \cup {"Join"} =>
            metrics'.waitTime = metrics.waitTime]_vars
    /\ [][act'.op \in TaskOps => last' = last]_vars
    /\ [][(act'.op = "Join" /\ act'.call = "FinalizeAndSend") =>
            /\ \A d \in Ds : tpc[d] = "done"
            /\ last' = clock' /\ last' >= clock
            /\ last' # ZeroTime]_vars

\* C20 witness: the second triggered flush of a worker has completed later
\* than the first one, with one wait-time observation recorded
C20_Witness ==
    /\ act.op = "Join" /\ act.call = "FinalizeAndSend"
    /\ act.batchSize > 0
    /\ metrics.waitTime = 1
    /\ \E d \in Ds : metrics.insertTime[d] = 2
    /\ last > 1

\* C21: the insert mode of a destination in a flush is async exactly when
\* the batch holds at most MaximumBatchSize / minimumBatchSizeDivider
\* records, with the MaximumBatchSize of that destination and not of the
\* primary, and default (synchronous) otherwise; it is chosen once, by the
\* first invocation of the operation, and no later attempt, backoff or
\* return of the same call changes it.
C21_AsyncByOwnThreshold ==
    /\ [](\A d \in Ds : settings[d] # "none" =>
            /\ bf > 0
            /\ settings[d] = "async" <=>
                 bf <= destinations[d].config.MaximumBatchSize
                          \div minimumBatchSizeDivider
            /\ settings[d] = "default" <=>
                 bf > destinations[d].config.MaximumBatchSize
                         \div minimumBatchSizeDivider)
    /\ [][\A d \in Ds :
            (act'.op \in TaskOps /\ settings[d] # "none")
                => settings'[d] = settings[d]]_vars
    /\ [][\A d \in Ds : settings'[d] # settings[d] =>
            \/ /\ act'.op = "Operation" /\ act'.dest = d
               /\ attempts[d] = 0 /\ settings[d] = "none"
            \/ settings'[d] = "none"]_vars
    /\ [](\A d \in Ds : tpc[d] \in {"send", "backoff"}
                           => settings[d] # "none")

\* C21 witness: a batch above the async threshold of the primary and below
\* that of the secondary: the primary uses the default mode, the secondary
\* the async mode, still at its second attempt
C21_Witness ==
    /\ Len(destinations) = 2
    /\ bf > PrimaryMaximumBatchSize \div minimumBatchSizeDivider
    /\ bf <= destinations[2].config.MaximumBatchSize
                \div minimumBatchSizeDivider
    /\ settings[1] = "default"
    /\ settings[2] = "async"
    /\ attempts[2] = 2 /\ tpc[2] = "send"

\* C22: MaxRetries of a destination is never negative: a configuration
\* with a negative value does not pass the validation; the default is 0;
\* and with MaxRetries = 0 the writer has no attempt ceiling: every
\* invocation of the operation, however many failed before, makes an
\* attempt, and the call never gives up.
C22_MaxRetriesNonNegative ==
    /\ [](\A d \in Ds : destinations[d].maxRetries >= 0)
    /\ [](\A sc \in Configurations :
            (\E i \in DOMAIN sc.dests : sc.dests[i].maxRetries < 0)
                => ~Valid(sc) /\ sc \notin Scenarios)
    /\ [](DefaultMaxRetries = 0)
    /\ [](\A d \in Ds : destinations[d].maxRetries = 0 =>
            /\ MaxAttemptsOf(destinations[d].maxRetries) < 0
            /\ result[d] # "RetryExhausted"
            /\ metrics.retriesExceeded[d] = 0)
    /\ [][\A d \in Ds :
            (act'.op = "Operation" /\ act'.dest = d
               /\ destinations[d].maxRetries = 0) =>
                /\ io' # <<>>
                /\ tpc'[d] = "done" => ctxDone]_vars

\* C22 witness: with ctx live, the destination configured with the default
\* MaxRetries has made another attempt after as many failures as the model
\* observes
C22_Witness ==
    \E d \in Ds :
        /\ destinations[d].maxRetries = DefaultMaxRetries
        /\ destinations[d] = Primary(DefaultMaxRetries)
        /\ act.op = "Operation" /\ act.dest = d
        /\ attempts[d] = MaxAttempts
        /\ metrics.errors[d].connect + metrics.errors[d].send >= MaxAttempts - 1
        /\ io # <<>>
        /\ ~ctxDone

\* the last I/O of a trace, and the dials of a trace in order
LastIO(tr) == tr[Len(tr)]
Dials(tr) == SelectSeq(tr, LAMBDA e : e[1] = "dial")

\* the trace ends with a successful dial of server s followed by a
\* successful liveness probe of it
DialedAndProbed(tr, s) ==
    /\ Len(tr) >= 2
    /\ tr[Len(tr) - 1] = <<"dial", s, TRUE>>
    /\ tr[Len(tr)] = <<"ping", s, TRUE>>

\* C23: dw.conn is present after a step of the goroutine of a destination
\* only if the last I/O of the step was a successful dial followed by a
\* successful probe, or a successful probe or send on the connection that
\* was already present; a failed send and a failed probe are followed at
\* once by the close of the connection, which is then absent unless a
\* server was dialed and probed afresh in the same connect; the connection
\* is absent whenever an attempt has failed (in the backoff, at the next
\* invocation, after the call gave up or was cancelled); and the I/O of a
\* send is on the connection the preceding connect left.
C23_ConnectionLifecycle ==
    /\ [][\A d \in Ds :
            (act'.op \in {"Operation", "Send"} /\ act'.dest = d
               /\ io' # <<>> /\ conn'[d] # 0) =>
                \/ /\ conn[d] = conn'[d]
                   /\ io' \in { << <<"ping", conn[d], TRUE>> >>,
                                << <<"send", conn[d], TRUE>> >> }
                \/ /\ act'.op = "Operation"
                   /\ DialedAndProbed(io', conn'[d])]_vars
    /\ [][\A d \in Ds : conn'[d] # conn[d] =>
            /\ act'.op \in {"Operation", "Send"} /\ act'.dest = d
            /\ io' # <<>>]_vars
    /\ [][\A d \in Ds :
            (act'.op = "Send" /\ act'.dest = d
               /\ io' # <<>> /\ ~io'[1][3]) =>
                /\ io' = << <<"send", conn[d], FALSE>>,
                            <<"close", conn[d], TRUE>> >>
                /\ conn[d] # 0 /\ conn'[d] = 0
                /\ result'[d] # "nil"]_vars
    /\ [][\A d \in Ds :
            (act'.op = "Send" /\ act'.dest = d
               /\ io' # <<>> /\ io'[1][3]) =>
                /\ io' = << <<"send", conn[d], TRUE>> >>
                /\ conn'[d] = conn[d] /\ result'[d] = "nil"]_vars
    /\ [][\A d \in Ds :
            (act'.op = "Operation" /\ act'.dest = d /\ io' # <<>>
               /\ io'[1][1] = "ping" /\ ~io'[1][3]) =>
                /\ io'[1][2] = conn[d] /\ conn[d] # 0
                /\ Len(io') >= 2 /\ io'[2] = <<"close", conn[d], TRUE>>
                /\ conn'[d] # 0 => DialedAndProbed(io', conn'[d])]_vars
    /\ [](\A d \in Ds :
            /\ tpc[d] = "backoff" => conn[d] = 0
            /\ (tpc[d] = "op" /\ attempts[d] > 0) => conn[d] = 0
            /\ result[d] \in {"Cancelled", "RetryExhausted"} => conn[d] = 0)
    /\ [][\A d \in Ds : (act'.op = "Send" /\ act'.dest = d /\ io' # <<>>) =>
            /\ conn[d] # 0
            /\ io'[1][1] = "send" /\ io'[1][2] = conn[d]]_vars

\* C23 witness: after a failed send closed the connection, the next attempt
\* of the same call has dialed and probed a server afresh
C23_Witness ==
    \E d \in Ds :
        /\ act.op = "Operation" /\ act.dest = d
        /\ attempts[d] >= 2
        /\ metrics.errors[d].send > 0
        /\ conn[d] # 0
        /\ DialedAndProbed(io, conn[d])
        /\ tpc[d] = "send"

\* the error connectDestination returns for an I/O trace that connected to
\* no server: that of the last candidate tried
LastCandidateError(tr) ==
    IF LastIO(tr) = <<"dial", LastIO(tr)[2], FALSE>> THEN "dial" ELSE "ping"

\* C24: a connect that finds no healthy connection dials the candidate
\* servers of the destination in the order of one permutation: no server is
\* dialed twice, a server is probed only right after its dial succeeded and
\* every dialed server is probed, the first server that passes the dial
\* and the probe becomes dw.conn and ends the connect, a server whose probe
\* fails is closed; when every candidate fails all of them have been tried,
\* the connect returns the error of the last one and dw.conn is absent.
C24_ServersInPermutationOrder ==
    /\ [](\A d \in Ds : tpc[d] = "op" =>
            \A o \in connectDestination(d) :
                LET dl == Dials(o.io)
                    first == IF conn[d] # 0 THEN 2 ELSE 1
                IN /\ \A i, j \in DOMAIN dl : dl[i][2] = dl[j][2] => i = j
                   /\ \A i \in DOMAIN dl :
                         dl[i][2] \in 1..destinations[d].servers
                   /\ \A i \in DOMAIN o.io :
                         /\ (o.io[i][1] = "ping" /\ i >= first) =>
                               i > 1 /\ o.io[i - 1] = <<"dial", o.io[i][2], TRUE>>
                         /\ o.io[i] = <<"dial", o.io[i][2], TRUE>> =>
                               /\ i < Len(o.io)
                               /\ o.io[i + 1][1] = "ping"
                               /\ o.io[i + 1][2] = o.io[i][2]
                         /\ o.io[i] = <<"ping", o.io[i][2], TRUE>> =>
                               /\ i = Len(o.io)
                               /\ o.conn = o.io[i][2] /\ o.err = "nil"
                         /\ o.io[i] = <<"ping", o.io[i][2], FALSE>> =>
                               /\ i < Len(o.io)
                               /\ o.io[i + 1] = <<"close", o.io[i][2], TRUE>>
                   /\ o.conn # 0 => o.err = "nil"
                   /\ o.err # "nil" =>
                         /\ o.conn = 0
                         /\ Len(dl) = destinations[d].servers
                         /\ o.err = LastCandidateError(
                                       SelectSeq(o.io,
                                           LAMBDA e : e[1] # "close"))
                         /\ \A i \in DOMAIN o.io :
                               o.io[i][1] = "ping" => ~o.io[i][3])
    /\ [][\A d \in Ds :
            (act'.op = "Operation" /\ act'.dest = d
               /\ result'[d] # "RetryExhausted") =>
                \E o \in connectDestination(d) :
                    /\ io' = o.io /\ conn'[d] = o.conn
                    /\ tpc'[d] = "send" <=> o.err = "nil"]_vars

\* C24 witness: a connect on three candidate servers has dialed two servers
\* in vain and connected to the third one tried
C24_Witness ==
    \E d \in Ds :
        /\ destinations[d].servers = 3
        /\ act.op = "Operation" /\ act.dest = d
        /\ Len(io) = 4
        /\ io[1][1] = "dial" /\ ~io[1][3]
        /\ io[2][1] = "dial" /\ ~io[2][3]
        /\ DialedAndProbed(io, conn[d])
        /\ tpc[d] = "send"

\* a flush call starts in this step
CallStartsFlush == pc = "idle" /\ pc' # "idle"

\* C25: at most one goroutine operates on a destination writer: the caller
\* invoking FinalizeAndSend and Flush one at a time, a flush starts exactly
\* one goroutine per configured destination and none is running when it
\* starts; no goroutine outlives its flush; a step of the goroutine of one
\* destination leaves the connection, the attempt counter and the position
\* of every other destination alone; dw.conn changes only in a step of its
\* own goroutine; and the attempts of one destination are sequential: an
\* invocation of the operation starts only when the previous one has
\* returned and, if it failed, its connection is torn down.
C25_OneTaskPerWriter ==
    /\ [][act'.op \in {"FinalizeAndSend", "Flush"} =>
            pc = "idle" /\ \A d \in Ds : tpc[d] = "none"]_vars
    /\ [][CallStartsFlush =>
            /\ DOMAIN tpc' = Ds /\ Ds = DOMAIN destinations
            /\ \A d \in Ds :
                  tpc[d] = "none" /\ tpc'[d] = "op" /\ attempts'[d] = 0]_vars
    /\ [](pc = "idle" => \A d \in Ds : tpc[d] = "none")
    /\ [](pc # "idle" => \A d \in Ds : tpc[d] # "none")
    /\ [][act'.op \in TaskOps =>
            /\ act'.dest \in Ds /\ pc # "idle"
            /\ \A e \in Ds \ {act'.dest} :
                  /\ conn'[e] = conn[e] /\ tpc'[e] = tpc[e]
                  /\ attempts'[e] = attempts[e]
                  /\ settings'[e] = settings[e]
                  /\ retErr'[e] = retErr[e]]_vars
    /\ [][\A d \in Ds : conn'[d] # conn[d] =>
            /\ act'.op \in {"Operation", "Send"} /\ act'.dest = d
            /\ tpc[d] = (IF act'.op = "Send" THEN "send" ELSE "op")]_vars
    /\ [][\A d \in Ds : (act'.op \in TaskOps /\ act'.dest = d) =>
            /\ act'.op = "Operation" =>
                  /\ tpc[d] = "op"
                  /\ tpc'[d] \in {"send", "backoff", "done"}
                  /\ attempts[d] > 0 => conn[d] = 0
            /\ act'.op = "Send" =>
                  tpc[d] = "send" /\ tpc'[d] \notin {"none", "op", "send"}
            /\ act'.op = "Timer" =>
                  tpc[d] = "backoff" /\ tpc'[d] = "op" /\ conn[d] = 0
            /\ act'.op = "CtxDone" =>
                  tpc[d] = "backoff" /\ tpc'[d] = "done"]_vars

\* C25 witness: the goroutines of the two destinations of a flush are both
\* under way, one about to send on its connection, the other one waiting
\* to retry after a failed connect
C25_Witness ==
    /\ Len(destinations) = 2
    /\ pc # "idle"
    /\ tpc[1] = "send" /\ conn[1] # 0
    /\ tpc[2] = "backoff" /\ conn[2] = 0
    /\ attempts[1] = 1 /\ attempts[2] = 1

\* C26: the attempt counter belongs to one call of flushSingleDestination:
\* it is 0 when a flush starts, whatever failures earlier flushes counted,
\* moves only by one, in an invocation of the operation, and is gone when
\* the flush ends; an invocation that finds fewer than MaxRetries attempts
\* made in this call never gives up, so each flush makes MaxRetries attempts
\* on a destination that keeps failing before it gives up, and the errors
\* counted for a destination are at least MaxRetries times its exhaustions.
C26_AttemptCounterPerCall ==
    /\ [][CallStartsFlush => \A d \in Ds : attempts'[d] = 0]_vars
    /\ [][\A d \in Ds : attempts'[d] # attempts[d] =>
            \/ /\ act'.op = "Operation" /\ act'.dest = d
               /\ attempts'[d] = attempts[d] + 1
            \/ act'.op = "Join" /\ attempts'[d] = 0]_vars
    /\ [][\A d \in Ds :
            (act'.op = "Operation" /\ act'.dest = d
               /\ attempts[d] < destinations[d].maxRetries) =>
                /\ result'[d] # "RetryExhausted"
                /\ io' # <<>>
                /\ metrics'.retriesExceeded = metrics.retriesExceeded]_vars
    /\ [](\A d \in Ds :
            /\ result[d] = "RetryExhausted"
                  => attempts[d] = destinations[d].maxRetries + 1
            /\ metrics.errors[d].connect + metrics.errors[d].send
                  >= destinations[d].maxRetries * metrics.retriesExceeded[d]
            /\ pc = "idle" => attempts[d] = 0)

\* C26 witness: a destination with MaxRetries = 2 that gave up in an earlier
\* flush has, in the next flush, given up again only after two more failed
\* attempts
C26_Witness ==
    \E d \in Ds :
        /\ destinations[d].maxRetries = 2
        /\ act.op = "Operation" /\ act.dest = d
        /\ result[d] = "RetryExhausted"
        /\ attempts[d] = 3
        /\ metrics.retriesExceeded[d] = 2
        /\ metrics.errors[d].connect + metrics.errors[d].send = 4

\* every configured destination has a non-zero MaxRetries
AllBounded == \A d \in Ds : destinations[d].maxRetries # 0

\* the attempts (connect and, if connected, send) the current call of
\* flushSingleDestination has made for destination d: the invocation that
\* gives up makes none
WriteAttempts(d) ==
    IF result[d] = "RetryExhausted" THEN attempts[d] - 1 ELSE attempts[d]

RECURSIVE SumOver(_, _)
SumOver(S, f) ==
    IF S = {} THEN 0
    ELSE LET x == CHOOSE y \in S : TRUE IN f[x] + SumOver(S \ {x}, f)

\* C27: when every configured destination has a non-zero MaxRetries, every
\* flush returns, ctx cancelled or not and even when every attempt of every
\* destination fails; each destination makes at most MaxRetries attempts,
\* so the flush makes at most the sum of the MaxRetries of its destinations;
\* with ctx live every destination has then written the batch or given up.
C27_BoundedFlushTerminates ==
    /\ ((pc # "idle" /\ AllBounded) ~> pc = "idle")
    /\ [](AllBounded =>
            /\ \A d \in Ds : WriteAttempts(d) <= destinations[d].maxRetries
            /\ SumOver(Ds, [d \in Ds |-> WriteAttempts(d)])
                  <= SumOver(Ds, [d \in Ds |-> destinations[d].maxRetries]))
    /\ [][(act'.op = "Join" /\ AllBounded /\ ~ctxDone) =>
            \A d \in Ds : result[d] \in {"nil", "RetryExhausted"}]_vars

\* C27 witness: with ctx live, a flush to two destinations with non-zero
\* MaxRetries, every attempt of which failed, has returned after as many
\* attempts as the sum of their MaxRetries
C27_Witness ==
    /\ Len(destinations) = 2
    /\ AllBounded
    /\ \A d \in Ds : AlwaysFails(d)
    /\ act.op = "Join"
    /\ pc = "idle"
    /\ ~ctxDone
    /\ calls = 1
    /\ \A d \in Ds : metrics.retriesExceeded[d] = 1
    /\ SumOver(Ds, [d \in Ds |-> metrics.errors[d].connect
                                    + metrics.errors[d].send])
          = SumOver(Ds, [d \in Ds |-> destinations[d].maxRetries])

\* C28: the metrics of a destination account for its attempts one by one:
\* an invocation whose connect fails adds one to errors{destination,
\* connect} and changes nothing else; a failed send adds one to
\* errors{destination, send} and changes nothing else; a successful send
\* records one insert-time and one flows observation of the destination and
\* changes nothing else; the invocation that gives up adds one to
\* retriesExceeded{destination} alone; a successful connect, the backoff
\* and the return on cancellation record nothing. No step changes a counter
\* of another destination.
C28_MetricsPerAttempt ==
    /\ [][\A d \in Ds : (act'.op = "Operation" /\ act'.dest = d) =>
            metrics' =
               IF result'[d] = "RetryExhausted" /\ result[d] = "none"
               THEN [metrics EXCEPT !.retriesExceeded[d] = @ + 1]
               ELSE IF tpc'[d] = "send"
               THEN metrics
               ELSE [metrics EXCEPT !.errors[d].connect = @ + 1]]_vars
    /\ [][\A d \in Ds : (act'.op = "Send" /\ act'.dest = d /\ io' # <<>>) =>
            metrics' =
               IF result'[d] = "nil"
               THEN [metrics EXCEPT !.insertTime[d] = @ + 1,
                                    !.flows[d] = @ + 1]
               ELSE [metrics EXCEPT !.errors[d].send = @ + 1]]_vars
    /\ [][act'.op \in {"Timer", "CtxDone"} => metrics' = metrics]_vars
    /\ [][\A d \in Ds :
            (metrics'.errors[d] # metrics.errors[d]
               \/ metrics'.insertTime[d] # metrics.insertTime[d]
               \/ metrics'.flows[d] # metrics.flows[d]
               \/ metrics'.retriesExceeded[d] # metrics.retriesExceeded[d])
                => act'.op \in {"Operation", "Send"} /\ act'.dest = d]_vars
    /\ [](\A d \in Ds : metrics.insertTime[d] = metrics.flows[d])

\* C28 witness: in a flush to two destinations, one has written the batch
\* at its second attempt after a failed send, counted once, and the other
\* one has only failed connects: no send error, no observation
C28_Witness ==
    /\ Len(destinations) = 2
    /\ act.op = "Send" /\ act.dest = 2
    /\ calls = 1
    /\ metrics.errors[2].connect = 0
    /\ metrics.errors[2].send = 1
    /\ metrics.insertTime[2] = 1 /\ metrics.flows[2] = 1
    /\ attempts[2] = 2
    /\ metrics.errors[1].connect > 0
    /\ metrics.errors[1].send = 0
    /\ metrics.insertTime[1] = 0 /\ metrics.flows[1] = 0

RECURSIVE RemoveFirst(_, _)
RemoveFirst(q, x) ==
    IF q = <<>> THEN <<>>
    ELSE IF Head(q) = x THEN Tail(q)
    ELSE <<Head(q)>> \o RemoveFirst(Tail(q), x)

\* the connections a writer has open after the I/O trace tr, having had the
\* connections of open before it: a successful dial opens one, a close
\* closes one
RECURSIVE OpenConns(_, _)
OpenConns(tr, open) ==
    IF tr = <<>> THEN open
    ELSE LET e == Head(tr) IN
         OpenConns(Tail(tr),
                   IF e[1] = "dial" /\ e[3] THEN Append(open, e[2])
                   ELSE IF e[1] = "close" THEN RemoveFirst(open, e[2])
                   ELSE open)

\* dw.conn as the sequence of the connections it holds
Held(c) == IF c = 0 THEN <<>> ELSE <<c>>

\* C30: a destination writer leaks no connection: at every point of every
\* step of its goroutine it has at most one connection open, every probe,
\* send and close is on a connection that is open, and after the step the
\* connections open are exactly dw.conn: an unhealthy connection is closed
\* before a server is dialed, a freshly dialed connection whose probe fails
\* is closed before the next server is dialed, a connection whose send
\* fails is closed; no other step opens, closes or drops a connection.
C30_NoConnectionLeak ==
    /\ [][\A d \in Ds : (act'.op \in TaskOps /\ act'.dest = d) =>
            /\ \A k \in 0..Len(io') :
                  LET open == OpenConns(SubSeq(io', 1, k), Held(conn[d]))
                  IN /\ Len(open) <= 1
                     /\ (k < Len(io') /\ io'[k + 1][1] # "dial") =>
                           open = <<io'[k + 1][2]>>
                     /\ (k < Len(io') /\ io'[k + 1][1] = "dial") =>
                           open = <<>>
            /\ OpenConns(io', Held(conn[d])) = Held(conn'[d])]_vars
    /\ [][act'.op \notin TaskOps => conn' = conn /\ io' = <<>>]_vars
    /\ [][\A d \in Ds :
            (act'.op \in TaskOps /\ act'.dest = d /\ io' # <<>>) =>
                \A k \in DOMAIN io' :
                    (io'[k][1] \in {"ping", "send"} /\ ~io'[k][3]) =>
                        /\ k < Len(io')
                        /\ io'[k + 1] = <<"close", io'[k][2], TRUE>>]_vars

\* C30 witness: with ctx live, one connect has closed the unhealthy
\* connection left by an earlier flush, then the freshly dialed connection
\* whose probe failed; the writer holds none
C30_Witness ==
    \E d \in Ds :
        /\ act.op = "Operation" /\ act.dest = d
        /\ ~ctxDone
        /\ metrics.insertTime[d] > 0
        /\ Len(io) = 5
        /\ io[1][1] = "ping" /\ ~io[1][3]
        /\ io[2][1] = "close"
        /\ io[3][1] = "dial" /\ io[3][3]
        /\ io[4][1] = "ping" /\ ~io[4][3]
        /\ io[5][1] = "close"
        /\ conn[d] = 0

\* the step is a FinalizeAndSend call that returns without having started a
\* flush: nothing was handed to any destination
ReturnsAtOnce == act'.op = "FinalizeAndSend" /\ pc' = "idle"

\* the overloaded and underloaded counters are left alone by the step
LoadCountersUnchanged ==
    /\ metrics'.overloaded = metrics.overloaded
    /\ metrics'.underloaded = metrics.underloaded

C32_FirstCallAlwaysFlushes ==
    /\ []((calls = 0 /\ pc = "idle") => last = ZeroTime)
    /\ [](last = ZeroTime =>
            /\ metrics.waitTime = 0
            /\ metrics.overloaded = 0 /\ metrics.underloaded = 0)
    /\ [](\A now \in 1..MaxTime :
            /\ WaitTime(now, ZeroTime) >= PrimaryMaximumWaitTime
            /\ \A s \in BatchCounts \cup {0} :
                  Triggered(s, WaitTime(now, ZeroTime), primaryConfig))
    /\ [][(act'.op = "FinalizeAndSend" /\ last = ZeroTime) =>
            /\ act'.waitTime = MaxDuration
            /\ Crossed(act'.batchSize, act'.waitTime)
            /\ metrics'.waitTime = 0
            /\ IF bf > 0
               THEN /\ FlushStarts /\ pc' = "FinalizeAndSend"
                    /\ batchSize' = bf /\ bf' = bf
                    /\ last' = ZeroTime
               ELSE pc' = "idle" /\ last' # ZeroTime]_vars
    /\ [][(last = ZeroTime /\ last' # ZeroTime) =>
            \/ act'.op = "Join" /\ act'.call = "FinalizeAndSend"
            \/ act'.op = "FinalizeAndSend" /\ bf = 0]_vars

\* C32 witness: the first call of a worker, on a buffer of one record, far
\* below MaximumBatchSize, has started a flush to every destination; no
\* wait-time observation is recorded
C32_Witness ==
    /\ Len(destinations) >= 1
    /\ act.op = "FinalizeAndSend"
    /\ calls = 1
    /\ last = ZeroTime
    /\ pc = "FinalizeAndSend"
    /\ bf = 1 /\ bf < PrimaryMaximumBatchSize
    /\ act.waitTime = MaxDuration
    /\ \A d \in Ds : tpc[d] = "op"
    /\ metrics.waitTime = 0

\* C33 as stated: when a non-empty batch is cleared from the buffer, every
\* configured destination has started at least one attempt to write it in
\* this flush, and at least one destination has, whatever the destination
\* list the component was built with, the empty one included.
C33_NoClearWithoutAttempt ==
    [][(bf # 0 /\ bf' = 0) =>
         /\ \A d \in Ds : attempts[d] >= 1
         /\ \E d \in Ds : attempts[d] >= 1]_vars

====
